---- MODULE Spec2Model ----
(***************************************************************************)
(* readpass: reading a password from the terminal without echo.            *)
(*                                                                         *)
(* The model covers the line normaliser (fix_line_issues), the reader on   *)
(* an arbitrary buffered source (from_bufread) and the four terminal       *)
(* readers of the source tree: the in-line modules unix and windows of     *)
(* lib.rs and the files unix.rs and windows.rs.  Every OS call of a        *)
(* terminal read is one step, so that the states in between (guard alive,  *)
(* read blocked, handle still open) are visible.                           *)
(***************************************************************************)
EXTENDS Integers, Sequences, FiniteSets, TLC

(***************************************************************************)
(* Bounds of the model.                                                    *)
(***************************************************************************)
\* longest byte source handed to from_bufread in SpecRead
MaxLen == 5
\* longest terminal input in Spec
MaxTtyLen == 2

(***************************************************************************)
(* Bytes.                                                                  *)
(***************************************************************************)
LF == 10
CR == 13
CtrlU == 21
\* an ordinary character: the 'A' of the mocked responses
LetterA == 65

Bytes == {LF, CR, CtrlU, LetterA}

RECURSIVE SeqsUpTo(_)
SeqsUpTo(n) ==
    IF n = 0 THEN {<<>>}
    ELSE LET shorter == SeqsUpTo(n - 1)
         IN  shorter \cup {Append(s, b) : s \in {t \in shorter : Len(t) = n - 1}, b \in Bytes}

(***************************************************************************)
(* Bit masks of the terminal settings.                                     *)
(***************************************************************************)
\* termios c_lflag bits (libc, Linux)
ECHO == 8
ECHONL == 64
\* settings of a termios the guard has no business with: ICANON of c_lflag,
\* and c_iflag without and with ICRNL
OtherLflagBits == {2}
OtherIflags == {0, 256}
\* console mode bits (windows_sys); ENABLE_ECHO_INPUT is the bit the new
\* mode of the guard leaves out
ENABLE_PROCESSED_INPUT == 1
ENABLE_LINE_INPUT == 2
ENABLE_ECHO_INPUT == 4

RECURSIVE BitAnd(_, _)
BitAnd(x, y) ==
    IF x = 0 \/ y = 0 THEN 0
    ELSE (x % 2) * (y % 2) + 2 * BitAnd(x \div 2, y \div 2)

RECURSIVE BitOr(_, _)
BitOr(x, y) ==
    IF x = 0 THEN y
    ELSE IF y = 0 THEN x
    ELSE (IF x % 2 = 1 \/ y % 2 = 1 THEN 1 ELSE 0) + 2 * BitOr(x \div 2, y \div 2)

\* x & !m
BitClear(x, m) == x - BitAnd(x, m)

HasBit(x, m) == BitAnd(x, m) = m

RECURSIVE SumSet(_)
SumSet(S) == IF S = {} THEN 0 ELSE LET e == CHOOSE e \in S : TRUE IN e + SumSet(S \ {e})

(***************************************************************************)
(* Results: io::Result<String>.                                            *)
(***************************************************************************)
Ok(v) == [kind |-> "Ok", val |-> v, err |-> "none"]
Err(e) == [kind |-> "Err", val |-> <<>>, err |-> e]
Pending == [kind |-> "Pending", val |-> <<>>, err |-> "none"]

(***************************************************************************)
(* fix_line_issues                                                         *)
(***************************************************************************)
ends_with(line, b) == Len(line) > 0 /\ line[Len(line)] = b

\* String::pop on a non-empty line
pop(line) == SubSeq(line, 1, Len(line) - 1)

contains(line, b) == \E i \in 1..Len(line) : line[i] = b

\* str::find in place of str::rfind: the first occurrence
RECURSIVE findFrom(_, _, _)
findFrom(line, b, i) ==
    IF i > Len(line) THEN 0
    ELSE IF line[i] = b THEN i
    ELSE findFrom(line, b, i + 1)

rfind_First(line, b) == findFrom(line, b, 1)

\* str::rfind scans from the end; 0 stands for None, indices are 1-based
RECURSIVE rfindFrom(_, _, _)
rfindFrom(line, b, i) ==
    IF i = 0 THEN 0
    ELSE IF line[i] = b THEN i
    ELSE rfindFrom(line, b, i - 1)

rfind(line, b) == rfindFrom(line, b, Len(line))

\* a normaliser that trims every trailing carriage-return
RECURSIVE trim_all_CR(_)
trim_all_CR(line) == IF ends_with(line, CR) THEN trim_all_CR(pop(line)) ELSE line

trim_terminators_TrimsAllCR(line) == trim_all_CR(pop(line))

\* a normaliser that removes the line-feed only
trim_terminators_KeepsCR(line) == pop(line)

\* the line after the two pops (lib.rs 33-39)
trim_terminators(line) ==
    LET l1 == pop(line)
    IN  IF ends_with(l1, CR) THEN pop(l1) ELSE l1

\* a Ctrl-U step that keeps the line-kill character it found
kill_line_KeepsMarker(line) ==
    IF contains(line, CtrlU)
    THEN LET last_ctrl_u_index == rfind(line, CtrlU)
         IN  IF last_ctrl_u_index # 0
             THEN SubSeq(line, last_ctrl_u_index, Len(line))
             ELSE line
    ELSE line

\* the Ctrl-U step (lib.rs 41-47)
kill_line(line) ==
    IF contains(line, CtrlU)
    THEN LET last_ctrl_u_index == rfind(line, CtrlU)
         IN  IF last_ctrl_u_index # 0
             THEN SubSeq(line, last_ctrl_u_index + 1, Len(line))
             ELSE line
    ELSE line

\* a normaliser that rejects the empty password
fix_line_issues_EmptyIsError(line) ==
    IF ~ends_with(line, LF) \/ kill_line(trim_terminators(line)) = <<>>
    THEN Err("UnexpectedEof")
    ELSE Ok(kill_line(trim_terminators(line)))

\* the lenient policy: a line without line-feed is returned as read
fix_line_issues_Lenient(line) ==
    IF ~ends_with(line, LF)
    THEN Ok(line)
    ELSE Ok(kill_line(trim_terminators(line)))

fix_line_issues(line) ==
    IF ~ends_with(line, LF)
    THEN Err("UnexpectedEof")
    ELSE Ok(kill_line(trim_terminators(line)))

\* Contents of the String buffers that fix_line_issues drops: the line on
\* the error return, and the old line when the copied suffix replaces it.
\* String has no erasing destructor, so the bytes stay in the freed memory.
fix_line_issues_dropped(line) ==
    IF ~ends_with(line, LF)
    THEN {line}
    ELSE IF contains(trim_terminators(line), CtrlU)
         THEN {trim_terminators(line)}
         ELSE {}

(***************************************************************************)
(* BufRead::read_line on a source src read up to position pos.             *)
(***************************************************************************)
\* index of the last byte a complete read_line consumes: the first LF
\* after pos, or the end of the source
RECURSIVE read_until(_, _)
read_until(src, i) ==
    IF i >= Len(src) THEN Len(src)
    ELSE IF src[i + 1] = LF THEN i + 1
    ELSE read_until(src, i + 1)

\* a reader whose buffer is not fresh: read_line appends to what it holds
read_line_Appends(src, pos) == SubSeq(src, 1, read_until(src, pos))

read_line(src, pos) == SubSeq(src, pos + 1, read_until(src, pos))

(***************************************************************************)
(* State.                                                                  *)
(***************************************************************************)
VARIABLES
    variant,    \* which terminal reader is built: "lib_unix", "lib_windows", "unix", "windows"
    term,       \* the settings of the terminal: a termios on Unix, a console mode on Windows
    src,        \* the bytes of the input source
    pos,        \* read position of the source: number of bytes consumed
    pc,         \* position of the call in flight
    entry,      \* entry point of the call in flight or last returned
    handle,     \* the device handle opened by from_tty
    guard,      \* the HiddenInput of the call: alive or not, and its saved settings
    password,   \* the String the line is read into
    ret,        \* the value the call returns
    pre,        \* history: settings of the terminal when the call started
    pos0,       \* history: read position when the call started
    expected,   \* history: result of the read-and-normalize step of the call
    restores,   \* history: number of restoring calls made by the call
    restoreFailed, \* history: a restoring call of this call failed
    everRestoreFailed, \* history: a restoring call of any call failed
    term0,      \* history: the initial settings
    log,        \* history: the steps of the call in flight, in order
    residue,    \* history: contents left in buffers freed without being overwritten
    results,    \* history: values returned by the successful reads of the source
    ioFailed,   \* history: a read of the source failed with an I/O error
    fails,      \* history: the kinds of OS call that failed in the call in flight
    guards,     \* the HiddenInputs of two callers whose calls overlap
    order       \* history: the acquisitions and releases of the two callers, in order

vars == <<variant, term, src, pos, pc, entry, handle, guard, password, ret, pre, pos0,
          expected, restores, restoreFailed, everRestoreFailed, term0, log, residue,
          results, ioFailed, fails, guards, order>>

Variants == {"lib_unix", "lib_windows", "unix", "windows"}

IsUnix(v) == v \in {"lib_unix", "unix"}
IsWindows(v) == v \in {"lib_windows", "windows"}
\* the readers of lib.rs, as opposed to those of unix.rs and windows.rs
IsInline(v) == v \in {"lib_unix", "lib_windows"}

\* settings a terminal can start with
TermiosValues ==
    [c_iflag : OtherIflags, c_lflag : {SumSet(S) : S \in SUBSET (OtherLflagBits \cup {ECHO, ECHONL})}]
ConsoleModes ==
    {SumSet(S) : S \in SUBSET {ENABLE_PROCESSED_INPUT, ENABLE_LINE_INPUT, ENABLE_ECHO_INPUT}}

InitialSettings(v) == IF IsUnix(v) THEN TermiosValues ELSE ConsoleModes

\* non-empty contents only: an empty buffer holds no secret byte
Leak(S) == S \ {<<>>}

(***************************************************************************)
(* Terminal settings as the guard computes and reads them.                 *)
(***************************************************************************)
\* a guard that assigns the local flags instead of changing two bits
HiddenTermios_OverwritesLflag(t) == [t EXCEPT !.c_lflag = ECHONL]

\* a guard that sets ECHONL and forgets to clear ECHO
HiddenTermios_KeepsEcho(t) == [t EXCEPT !.c_lflag = BitOr(t.c_lflag, ECHONL)]

\* unix HiddenInput::new: term.c_lflag &= !ECHO; term.c_lflag |= ECHONL
HiddenTermios(t) == [t EXCEPT !.c_lflag = BitOr(BitClear(t.c_lflag, ECHO), ECHONL)]

\* windows HiddenInput::new: new_mode_flags
HiddenConsoleMode == BitOr(ENABLE_LINE_INPUT, ENABLE_PROCESSED_INPUT)

HiddenSettings(v, t) == IF IsUnix(v) THEN HiddenTermios(t) ELSE HiddenConsoleMode

\* does the terminal echo typed characters
EchoEnabled(v, t) ==
    IF IsUnix(v) THEN HasBit(t.c_lflag, ECHO) ELSE HasBit(t, ENABLE_ECHO_INPUT)

\* does the terminal itself echo the newline of Enter.  A console without
\* ENABLE_ECHO_INPUT echoes nothing, which is why the Windows readers print
\* the newline themselves after the read.
NewlineEchoEnabled(v, t) ==
    IF IsUnix(v)
    THEN HasBit(t.c_lflag, ECHONL)
    ELSE HasBit(t, ENABLE_ECHO_INPUT)

NoGuard(t) == [alive |-> FALSE, snap |-> t]

\* two threads that call from_tty on the same terminal
Callers == {"first", "second"}

\* a guard that saves the copy it has modified instead of the backup
HiddenInput_SavesModified(v, t) == [alive |-> TRUE, snap |-> HiddenSettings(v, t)]

\* Ok(HiddenInput { fd, term_orig }) / Ok(HiddenInput { mode, handle }):
\* t is what the terminal held when it was queried
HiddenInput(v, t) == [alive |-> TRUE, snap |-> t]

(***************************************************************************)
(* Initial states.                                                         *)
(***************************************************************************)
InitWith(sources, variants, termioses) ==
    /\ variant \in variants
    /\ term \in IF IsUnix(variant) THEN termioses ELSE InitialSettings(variant)
    /\ src \in sources
    /\ pos = 0
    /\ pc = "idle"
    /\ entry = "none"
    /\ handle = "closed"
    /\ guard = NoGuard(term)
    /\ password = <<>>
    /\ ret = Pending
    /\ pre = term
    /\ pos0 = 0
    /\ expected = Pending
    /\ restores = 0
    /\ restoreFailed = FALSE
    /\ everRestoreFailed = FALSE
    /\ term0 = term
    /\ log = <<>>
    /\ residue = {}
    /\ results = <<>>
    /\ ioFailed = FALSE
    /\ fails = {}
    /\ guards = [c \in Callers |-> NoGuard(term)]
    /\ order = <<>>

Init == InitWith(SeqsUpTo(MaxTtyLen), Variants, TermiosValues)

(***************************************************************************)
(* from_bufread: read_line, then fix_line_issues (lib.rs 233-238).          *)
(***************************************************************************)
\* positions at which a read_line that fails with an I/O error can stop:
\* the bytes read before the error are consumed and stay in the buffer
PartialEnds(s, p) == {k \in p..read_until(s, p) : k = p \/ s[k] # LF}

from_bufread ==
    /\ pc = "idle"
    /\ entry' = "from_bufread"
    /\ pos0' = pos
    /\ \/ \* read_line succeeds
          LET line == read_line(src, pos)
              r == fix_line_issues(line)
          IN  /\ pos' = read_until(src, pos)
              /\ ret' = r
              /\ expected' = r
              /\ residue' = residue \cup Leak(fix_line_issues_dropped(line))
              /\ results' = IF r.kind = "Ok" THEN Append(results, r.val) ELSE results
              /\ ioFailed' = ioFailed
              /\ fails' = {}
       \/ \* read_line fails: the `?` returns the error and drops password
          \E k \in PartialEnds(src, pos) :
              /\ pos' = k
              /\ ret' = Err("Read")
              /\ expected' = Err("Read")
              /\ residue' = residue \cup Leak({SubSeq(src, pos + 1, k)})
              /\ results' = results
              /\ ioFailed' = TRUE
              /\ fails' = {"read"}
    /\ pc' = "done"
    /\ password' = <<>>
    /\ UNCHANGED <<variant, src, term0, term, handle, guard, pre, restores, restoreFailed,
                   everRestoreFailed, log, guards, order>>

(***************************************************************************)
(* from_tty, step by step.                                                 *)
(***************************************************************************)
\* File::open("/dev/tty") / CreateFileA("CONIN$")
Open ==
    /\ pc = "idle"
    /\ entry' = "from_tty"
    /\ pre' = term
    /\ pos0' = pos
    /\ restores' = 0
    /\ restoreFailed' = FALSE
    /\ expected' = Pending
    /\ password' = <<>>
    /\ \/ /\ handle' = "open"
          /\ pc' = "acquire"
          /\ ret' = Pending
          /\ log' = <<"open">>
          /\ fails' = {}
       \/ /\ handle' = "closed"
          /\ pc' = "done"
          /\ ret' = Err("Open")
          /\ log' = <<>>
          /\ fails' = {"open"}
    /\ UNCHANGED <<variant, term, src, pos, guard, everRestoreFailed, term0, residue,
                   results, ioFailed, guards, order>>

\* the OS calls of HiddenInput::new, in order; each can fail
AcquireCalls(v) ==
    IF IsUnix(v) THEN {"tcgetattr1", "tcgetattr2", "tcsetattr"}
    ELSE {"GetConsoleMode", "SetConsoleMode"}

AcquireError(call) ==
    IF call \in {"tcsetattr", "SetConsoleMode"} THEN Err("Mutate") ELSE Err("Query")

\* the kind of OS call that failed
AcquireFailure(call) ==
    IF call \in {"tcsetattr", "SetConsoleMode"} THEN "mutate" ELSE "query"

\* a guard that applies the modified settings before it reads the backup
HiddenInput_new_SetsBeforeBackup ==
    /\ pc = "acquire"
    /\ \/ \* every call succeeds: the saved settings are the ones just read
          /\ term' = HiddenSettings(variant, term)
          /\ guard' = HiddenInput(variant, term)
          /\ pc' = "read"
          /\ ret' = ret
          /\ log' = Append(log, "acquire")
          /\ fails' = fails
       \/ \* one call fails: `?` returns its error, no HiddenInput exists
          \E call \in AcquireCalls(variant) :
              /\ term' = IF call = "tcgetattr2" THEN HiddenSettings(variant, term) ELSE term
              /\ guard' = guard
              /\ pc' = "close"
              /\ ret' = AcquireError(call)
              /\ log' = log
              /\ fails' = fails \cup {AcquireFailure(call)}
    /\ UNCHANGED <<variant, src, pos, entry, handle, password, pre, pos0, expected, restores,
                   restoreFailed, everRestoreFailed, term0, residue, results, ioFailed,
                   guards, order>>

HiddenInput_new ==
    /\ pc = "acquire"
    /\ \/ \* every call succeeds: the saved settings are the ones just read
          /\ term' = HiddenSettings(variant, term)
          /\ guard' = HiddenInput(variant, term)
          /\ pc' = "read"
          /\ ret' = ret
          /\ log' = Append(log, "acquire")
          /\ fails' = fails
       \/ \* one call fails: `?` returns its error, no HiddenInput exists
          \E call \in AcquireCalls(variant) :
              /\ term' = term
              /\ guard' = guard
              /\ pc' = "close"
              /\ ret' = AcquireError(call)
              /\ log' = log
              /\ fails' = fails \cup {AcquireFailure(call)}
    /\ UNCHANGED <<variant, src, pos, entry, handle, password, pre, pos0, expected, restores,
                   restoreFailed, everRestoreFailed, term0, residue, results, ioFailed,
                   guards, order>>

\* a reader of lib.rs that normalizes the line before it drops the guard
AfterRead_NormalizesFirst(v, ok) ==
    CASE v = "lib_unix" -> IF ok THEN "fix" ELSE "release"
      [] v = "lib_windows" -> "newline"
      [] v = "unix" -> IF ok THEN "fix" ELSE "release"
      [] v = "windows" -> IF ok THEN "fix" ELSE "newline"

\* a reader that restores by hand on the success path only
AfterRead_NoReleaseOnError(v, ok) ==
    IF ~ok THEN "close"
    ELSE CASE v = "lib_unix" -> "release"
           [] v = "lib_windows" -> "newline"
           [] v = "unix" -> "fix"
           [] v = "windows" -> "fix"

\* where the reader goes after read_line returned
AfterRead(v, ok) ==
    CASE v = "lib_unix" -> "release"
      [] v = "lib_windows" -> "newline"
      [] v = "unix" -> IF ok THEN "fix" ELSE "release"
      [] v = "windows" -> IF ok THEN "fix" ELSE "newline"

\* reader.read_line(&mut password), the blocking read
ReadLine ==
    /\ pc = "read"
    /\ \/ /\ password' = read_line(src, pos)
          /\ pos' = read_until(src, pos)
          /\ ret' = ret
          /\ expected' = fix_line_issues(read_line(src, pos))
          /\ pc' = AfterRead(variant, TRUE)
          /\ residue' = residue
          /\ ioFailed' = ioFailed
          /\ fails' = fails
       \/ \E k \in PartialEnds(src, pos) :
              /\ pos' = k
              /\ ret' = Err("Read")
              /\ expected' = Err("Read")
              /\ pc' = AfterRead(variant, FALSE)
              /\ ioFailed' = TRUE
              /\ fails' = fails \cup {"read"}
              \* lib_windows keeps password until it returns; the others
              \* return through `?` at once and drop it
              /\ IF variant = "lib_windows"
                 THEN password' = SubSeq(src, pos + 1, k) /\ residue' = residue
                 ELSE password' = <<>> /\ residue' = residue \cup Leak({SubSeq(src, pos + 1, k)})
    /\ log' = Append(log, "read")
    /\ UNCHANGED <<variant, term, src, entry, handle, guard, pre, pos0, restores,
                   restoreFailed, everRestoreFailed, term0, results, guards, order>>

\* a reader of unix.rs that leaks its guard: the handle is closed with the
\* guard alive and nothing restored
AfterFix_LeaksGuard(v) ==
    CASE v = "lib_unix" -> "close"
      [] v = "lib_windows" -> "close"
      [] v = "unix" -> "close"
      [] v = "windows" -> "newline"

\* where the reader goes after fix_line_issues returned
AfterFix(v) ==
    CASE v = "lib_unix" -> "close"
      [] v = "lib_windows" -> "close"
      [] v = "unix" -> "release"
      [] v = "windows" -> "newline"

\* fix_line_issues(password)
Fix ==
    /\ pc = "fix"
    /\ ret' = fix_line_issues(password)
    /\ residue' = residue \cup Leak(fix_line_issues_dropped(password))
    /\ results' = IF ret'.kind = "Ok" THEN Append(results, ret'.val) ELSE results
    /\ password' = <<>>
    /\ pc' = AfterFix(variant)
    /\ log' = Append(log, "fix")
    /\ UNCHANGED <<variant, term, src, pos, entry, handle, guard, pre, pos0, expected,
                   restores, restoreFailed, everRestoreFailed, term0, ioFailed, fails,
                   guards, order>>

\* Windows only: writeln!(io::stdout())? / io::stdout().write_all(b"\n")?
Newline ==
    /\ pc = "newline"
    /\ \/ /\ ret' = ret
          /\ fails' = fails
          /\ IF variant = "lib_windows" /\ ret.kind = "Err"
             \* if reader_return.is_err() { return ... }: password is dropped
             THEN password' = <<>> /\ residue' = residue \cup Leak({password})
             ELSE password' = password /\ residue' = residue
       \/ \* the write fails: `?` returns its error in place of the read's result
          /\ ret' = Err("Stdout")
          /\ fails' = fails \cup {"stdout"}
          /\ password' = <<>>
          \* password of lib_windows is a String; reader_return of windows.rs
          \* is a Zeroizing<String>, erased when dropped
          /\ residue' = IF variant = "lib_windows" THEN residue \cup Leak({password})
                        ELSE residue
    /\ pc' = "release"
    /\ log' = Append(log, "newline")
    /\ UNCHANGED <<variant, term, src, pos, entry, handle, guard, pre, pos0, expected,
                   restores, restoreFailed, everRestoreFailed, term0, results, ioFailed,
                   guards, order>>

\* a drop that restores the settings and keeps the HiddenInput and its
\* saved settings alive
Release_KeepsGuard ==
    /\ pc = "release"
    /\ guard.alive
    /\ \/ /\ term' = guard.snap
          /\ restoreFailed' = restoreFailed
          /\ everRestoreFailed' = everRestoreFailed
          /\ fails' = fails
       \/ /\ term' = term
          /\ restoreFailed' = TRUE
          /\ everRestoreFailed' = TRUE
          /\ fails' = fails \cup {"restore"}
    /\ guard' = guard
    /\ restores' = restores + 1
    /\ pc' = IF ret.kind = "Pending" THEN "fix" ELSE "close"
    /\ log' = Append(log, "release")
    /\ UNCHANGED <<variant, src, pos, entry, handle, password, ret, pre, pos0, expected,
                   term0, residue, results, ioFailed, guards, order>>

\* Drop for HiddenInput: the result of the restoring call is ignored
Release ==
    /\ pc = "release"
    /\ guard.alive
    /\ \/ /\ term' = guard.snap
          /\ restoreFailed' = restoreFailed
          /\ everRestoreFailed' = everRestoreFailed
          /\ fails' = fails
       \/ /\ term' = term
          /\ restoreFailed' = TRUE
          /\ everRestoreFailed' = TRUE
          /\ fails' = fails \cup {"restore"}
    /\ guard' = [guard EXCEPT !.alive = FALSE]
    /\ restores' = restores + 1
    \* lib.rs drops the guard between read_line and fix_line_issues
    /\ pc' = IF ret.kind = "Pending" THEN "fix" ELSE "close"
    /\ log' = Append(log, "release")
    /\ UNCHANGED <<variant, src, pos, entry, handle, password, ret, pre, pos0, expected,
                   term0, residue, results, ioFailed, guards, order>>

\* the BufReader and the File in it are dropped when from_tty returns
Close ==
    /\ pc = "close"
    /\ handle' = "closed"
    /\ pc' = "done"
    /\ log' = Append(log, "close")
    /\ UNCHANGED <<variant, term, src, pos, entry, guard, password, ret, pre, pos0, expected,
                   restores, restoreFailed, everRestoreFailed, term0, residue, results,
                   ioFailed, fails, guards, order>>

\* does the caller receive a Zeroizing<String> (unix.rs, windows.rs) or a
\* String (lib.rs)
ReturnsZeroizing(e, v) == e = "from_tty" /\ ~IsInline(v)

\* the caller drops the returned value; the histories of the call end here
DropResult ==
    /\ pc = "done"
    /\ pc' = "idle"
    /\ ret' = Pending
    /\ residue' = IF ret.kind = "Ok" /\ ~ReturnsZeroizing(entry, variant)
                  THEN residue \cup Leak({ret.val})
                  ELSE residue
    /\ pre' = term
    /\ pos0' = pos
    /\ expected' = Pending
    /\ restores' = 0
    /\ restoreFailed' = FALSE
    /\ log' = <<>>
    /\ fails' = {}
    /\ UNCHANGED <<variant, term, src, pos, entry, handle, guard, password,
                   everRestoreFailed, term0, results, ioFailed, guards, order>>

Next ==
    \/ Open
    \/ HiddenInput_new
    \/ ReadLine
    \/ Fix
    \/ Newline
    \/ Release
    \/ Close
    \/ DropResult

Spec == Init /\ [][Next]_vars

(***************************************************************************)
(* The reader on a caller's source alone, on longer sources.               *)
(***************************************************************************)
\* the terminal plays no part here: one cooked terminal
CookedTermios == [c_iflag |-> SumSet(OtherIflags), c_lflag |-> SumSet(OtherLflagBits \cup {ECHO})]

InitRead == InitWith(SeqsUpTo(MaxLen), {"unix"}, {CookedTermios})

NextRead ==
    \/ from_bufread
    \/ DropResult

SpecRead == InitRead /\ [][NextRead]_vars

TypeOK ==
    /\ variant \in Variants
    /\ pos \in 0..Len(src)
    /\ pc \in {"idle", "acquire", "read", "fix", "newline", "release", "close", "done"}
    /\ handle \in {"open", "closed"}
    /\ ret.kind \in {"Ok", "Err", "Pending"}

(***************************************************************************)
(* Properties of the terminal readers (checked under Spec).                *)
(***************************************************************************)
Returned == pc = "done" /\ entry = "from_tty"

\* the guard of the returned call was acquired
GuardWasAcquired == \E i \in 1..Len(log) : log[i] = "acquire"

\* the read_line of the returned call ran and did not fail
ReadSucceeded == expected.kind # "Pending" /\ expected.err # "Read"

\* C1: a terminal read whose read_line and whose restoring call both
\* succeed leaves the terminal with exactly the settings it had when the
\* call started; as long as no restoring call has failed, the settings
\* between calls are the initial ones.
C1_SettingsRestored ==
    /\ (Returned /\ GuardWasAcquired /\ ReadSucceeded /\ ~restoreFailed) => term = pre
    /\ (pc \in {"idle", "done"} /\ ~everRestoreFailed) => term = term0

\* a second successful read has returned, on a terminal that echoed before
\* the call, and the settings are back
C1_Witness ==
    /\ Returned /\ GuardWasAcquired /\ ReadSucceeded /\ ~everRestoreFailed
    /\ ret.kind = "Ok"
    /\ Len(results) = 2
    /\ EchoEnabled(variant, pre)
    /\ HiddenSettings(variant, pre) # pre
    /\ term = pre

\* C2: when the guard was acquired and the read or the normalization then
\* fails, the call returns an error only after one restoring call, and if
\* that call succeeded the terminal holds its settings of before the call.
C2_RestoredOnReadError ==
    (Returned /\ GuardWasAcquired /\ expected.kind = "Err")
        => /\ ret.kind = "Err"
           /\ restores = 1
           /\ ~guard.alive
           /\ ~restoreFailed => term = pre

\* a read that failed with an I/O error has returned its error, on a
\* terminal that echoed before the call and echoes again
C2_Witness ==
    /\ Returned /\ GuardWasAcquired
    /\ expected = Err("Read")
    /\ ret = Err("Read")
    /\ ~restoreFailed
    /\ EchoEnabled(variant, pre)
    /\ EchoEnabled(variant, term)

\* C3 as stated: while a guard is alive the terminal does not echo
\* characters and does echo the newline of Enter, and the read is never
\* started while the terminal echoes.
C3_AsStated ==
    /\ guard.alive => ~EchoEnabled(variant, term) /\ NewlineEchoEnabled(variant, term)
    /\ pc = "read" => guard.alive /\ ~EchoEnabled(variant, term)

\* C3, amended: while a guard is alive the terminal does not echo
\* characters; on Unix it echoes the newline of Enter, on Windows the console
\* has line input and processed input and echoes nothing; the read is never
\* started while the terminal echoes.
C3_HiddenWhileGuardAlive ==
    /\ guard.alive =>
        /\ ~EchoEnabled(variant, term)
        /\ IsUnix(variant) => NewlineEchoEnabled(variant, term)
        /\ IsWindows(variant) =>
            /\ HasBit(term, ENABLE_LINE_INPUT)
            /\ HasBit(term, ENABLE_PROCESSED_INPUT)
            /\ ~NewlineEchoEnabled(variant, term)
    /\ pc = "read" => guard.alive /\ ~EchoEnabled(variant, term)

\* the read is blocked under a guard on a terminal that echoed characters
\* and did not echo newlines separately before the call
C3_Witness ==
    /\ pc = "read"
    /\ guard.alive
    /\ EchoEnabled(variant, pre)
    /\ IsUnix(variant) => ~HasBit(pre.c_lflag, ECHONL)

\* C4: when acquiring the guard fails, the call returns that error, no
\* read was attempted and no byte consumed, the settings are those of
\* before the call, and no restoring call was made.
C4_AcquireFailure ==
    (Returned /\ ret.kind = "Err" /\ ret.err \in {"Query", "Mutate"})
        => /\ pos = pos0
           /\ \A i \in 1..Len(log) : log[i] \notin {"acquire", "read", "release"}
           /\ expected = Pending
           /\ term = pre
           /\ restores = 0
           /\ ~guard.alive
           /\ handle = "closed"

\* a query of the settings failed on a terminal that echoes and whose
\* input is not exhausted
C4_Witness ==
    /\ Returned
    /\ ret = Err("Query")
    /\ EchoEnabled(variant, term)
    /\ pos < Len(src)
    /\ log = <<"open", "close">>

\* C5: once the guard was acquired, the call returns exactly the result
\* of its read-and-normalize step.
C5_ReadResultWins ==
    (Returned /\ GuardWasAcquired) => ret = expected

(***************************************************************************)
(* Properties of from_bufread (checked under SpecRead).                    *)
(***************************************************************************)
ReadReturned == pc = "done" /\ entry = "from_bufread"

\* the bytes of the source not yet consumed when the call started
Unread == SubSeq(src, pos0 + 1, Len(src))

IsPrefix(p, s) == Len(p) <= Len(s) /\ SubSeq(s, 1, Len(p)) = p

\* a text without line-feed and line-kill character that does not end in a
\* carriage-return
CleanText(t) ==
    /\ \A i \in 1..Len(t) : t[i] \notin {LF, CtrlU}
    /\ Len(t) > 0 => t[Len(t)] # CR

\* C6: reading a line from a source that holds a clean text t followed by
\* "\r\n", or followed by "\n", returns exactly t, unless the read fails.
C6_TerminatorsRemoved ==
    (ReadReturned /\ expected.err # "Read") =>
        \A n \in 0..Len(Unread) :
            LET t == SubSeq(Unread, 1, n)
            IN  (CleanText(t) /\ (IsPrefix(t \o <<CR, LF>>, Unread) \/ IsPrefix(t \o <<LF>>, Unread)))
                    => ret = Ok(t)

\* a text holding a carriage-return inside, ended by "\r\n", was returned
C6_Witness ==
    /\ ReadReturned
    /\ ret.kind = "Ok"
    /\ CleanText(ret.val)
    /\ \E i \in 1..Len(ret.val) : ret.val[i] = CR
    /\ IsPrefix(ret.val \o <<CR, LF>>, Unread)

\* positions of the line-feeds of s, and the k-th of them (0 for k = 0)
LFIndexes(s) == {i \in 1..Len(s) : s[i] = LF}
KthLF(s, k) ==
    IF k = 0 THEN 0
    ELSE CHOOSE i \in LFIndexes(s) : Cardinality({j \in LFIndexes(s) : j <= i}) = k

\* the k-th line of s with its line-feed
KthLine(s, k) == SubSeq(s, KthLF(s, k - 1) + 1, KthLF(s, k))

\* the k-th line without its terminators and without what a line-kill
\* character erases
Normalized(l) ==
    LET noLF == SubSeq(l, 1, Len(l) - 1)
        t == IF Len(noLF) > 0 /\ noLF[Len(noLF)] = CR THEN SubSeq(noLF, 1, Len(noLF) - 1)
             ELSE noLF
        kills == {i \in 1..Len(t) : t[i] = CtrlU}
        from == IF kills = {} THEN 0 ELSE CHOOSE i \in kills : \A j \in kills : j <= i
    IN  SubSeq(t, from + 1, Len(t))

\* C7: as long as no read failed, the k-th successful call on a source
\* returned the normalized k-th line of the source, and a call that returns
\* a value started right after the previous line-feed and consumed the bytes
\* up to and including the next one.
C7_SuccessiveLines ==
    ~ioFailed =>
        /\ Len(results) <= Cardinality(LFIndexes(src))
        /\ \A k \in 1..Len(results) : results[k] = Normalized(KthLine(src, k))
        /\ (ReadReturned /\ ret.kind = "Ok") =>
            /\ pos0 = KthLF(src, Len(results) - 1)
            /\ pos = KthLF(src, Len(results))
            /\ ret.val = results[Len(results)]

\* the second call returned the second line, which differs from the first
C7_Witness ==
    /\ ReadReturned
    /\ ~ioFailed
    /\ ret.kind = "Ok"
    /\ Len(results) = 2
    /\ results[1] # results[2]
    /\ results[2] # <<>>
    /\ pos < Len(src)

\* the line the returned call consumed, without its terminators
TrimmedLine ==
    LET l == SubSeq(src, pos0 + 1, pos)
        noLF == SubSeq(l, 1, Len(l) - 1)
    IN  IF Len(noLF) > 0 /\ noLF[Len(noLF)] = CR THEN SubSeq(noLF, 1, Len(noLF) - 1) ELSE noLF

\* C8: the value returned is the part of the trimmed line after its last
\* line-kill character, and the whole trimmed line if it holds none.
C8_LineKill ==
    (ReadReturned /\ ret.kind = "Ok") =>
        LET t == TrimmedLine
        IN  IF \E i \in 1..Len(t) : t[i] = CtrlU
            THEN \E i \in 1..Len(t) :
                    /\ t[i] = CtrlU
                    /\ \A j \in (i + 1)..Len(t) : t[j] # CtrlU
                    /\ ret.val = SubSeq(t, i + 1, Len(t))
            ELSE ret.val = t

\* a line with two line-kill characters and text after each was read
C8_Witness ==
    /\ ReadReturned
    /\ ret.kind = "Ok"
    /\ ret.val # <<>>
    /\ \E i, j \in 1..Len(TrimmedLine) :
        /\ i + 1 < j
        /\ TrimmedLine[i] = CtrlU
        /\ TrimmedLine[j] = CtrlU

\* the call read up to the end of the source and met no line-feed
ReachedEofWithoutLF ==
    /\ ReadReturned
    /\ expected.err # "Read"
    /\ pos = Len(src)
    /\ pos = pos0 \/ src[pos] # LF

\* C9 as stated: a read that reaches end-of-input without a trailing
\* line-feed is no error and returns what was read.
C9_AsStated ==
    ReachedEofWithoutLF => ret = Ok(SubSeq(src, pos0 + 1, pos))

\* C9, amended: a read that reaches end-of-input without a trailing
\* line-feed, also on a source already at its end, consumes the rest of the
\* source and fails with the unexpected-end-of-input error.
C9_EofIsAnError ==
    ReachedEofWithoutLF => ret = Err("UnexpectedEof")

\* a second call found text without a line-feed at the end of the source
C9_Witness ==
    /\ ReachedEofWithoutLF
    /\ pos0 > 0
    /\ pos > pos0
    /\ ret = Err("UnexpectedEof")

\* C10: no buffer is freed or replaced with secret bytes still in it.
C10_BuffersErased ==
    residue = {}

(***************************************************************************)
(* Order of the steps of a terminal read (checked under Spec).             *)
(***************************************************************************)
IsResourceStep(e) == e \in {"open", "acquire", "read", "release", "close"}

\* the steps of the call in flight that take or give back a resource
ResourceSteps == SelectSeq(log, IsResourceStep)

FullOrder == <<"open", "acquire", "read", "release", "close">>

\* C11: the resource steps of a terminal read happen in the order open,
\* acquire, read, release, close; a guard is only ever alive on an open
\* handle; and a call that opened the handle returns with the handle closed
\* and the guard released, after all five steps when the guard was acquired
\* and after open and close alone when it was not.
C11_StepOrder ==
    /\ IsPrefix(ResourceSteps, FullOrder) \/ ResourceSteps = <<"open", "close">>
    /\ guard.alive => handle = "open"
    /\ pc = "release" => handle = "open"
    /\ Returned =>
        /\ handle = "closed"
        /\ ~guard.alive
        /\ ResourceSteps \in {<<>>, <<"open", "close">>, FullOrder}
        /\ GuardWasAcquired => ResourceSteps = FullOrder
        /\ "open" \notin fails => ResourceSteps # <<>>

\* a call whose read failed has returned after all five steps
C11_Witness ==
    /\ Returned
    /\ "read" \in fails
    /\ ret.kind = "Err"
    /\ ResourceSteps = FullOrder
    /\ handle = "closed"

(***************************************************************************)
(* One contract for the two platforms (checked under Spec).                *)
(***************************************************************************)
\* what a terminal read returns by the contract both platforms share, from
\* the input and the kinds of OS call that failed: open, settings query,
\* settings mutation, read (a failed restore changes no result)
ContractResult(f, s, p) ==
    IF "open" \in f THEN Err("Open")
    ELSE IF "query" \in f THEN Err("Query")
    ELSE IF "mutate" \in f THEN Err("Mutate")
    ELSE IF "read" \in f THEN Err("Read")
    ELSE LET end == IF \E i \in (p + 1)..Len(s) : s[i] = LF
                    THEN CHOOSE i \in (p + 1)..Len(s) :
                            s[i] = LF /\ \A j \in (p + 1)..(i - 1) : s[j] # LF
                    ELSE Len(s)
             l == SubSeq(s, p + 1, end)
         IN  IF end > p /\ s[end] = LF THEN Ok(Normalized(l)) ELSE Err("UnexpectedEof")

\* C12: on the same input and the same pattern of failing OS calls, the
\* Unix and the Windows readers return the same value or the same kind of
\* error, the one the platform-independent contract gives, and leave the
\* terminal with its settings of before the call (compared here when the
\* restoring call succeeded).
C12_SameContract ==
    Returned =>
        /\ ret = ContractResult(fails, src, pos0)
        /\ "restore" \notin fails => term = pre

(***************************************************************************)
(* More on the normalization (checked under SpecRead).                     *)
(***************************************************************************)
\* C13: a read that finds an immediate line-feed, or a carriage-return
\* and a line-feed, returns the empty string and no error.
C13_EmptyLine ==
    (ReadReturned /\ "read" \notin fails
        /\ (IsPrefix(<<LF>>, Unread) \/ IsPrefix(<<CR, LF>>, Unread)))
        => ret = Ok(<<>>)

\* a second call found "\r\n" right after the first line and returned the
\* empty string
C13_Witness ==
    /\ ReadReturned
    /\ pos0 > 0
    /\ IsPrefix(<<CR, LF>>, Unread)
    /\ ret = Ok(<<>>)
    /\ pos = pos0 + 2

\* the line the returned call consumed, as read
RawLine == SubSeq(src, pos0 + 1, pos)

Count(e) == Cardinality({i \in 1..Len(log) : log[i] = e})

\* C14: a terminal read opens one handle of its own, acquires at most one
\* guard on it and releases each guard once; the guard is alive exactly
\* between its acquisition and its release, so never twice on the handle,
\* and neither the guard nor its saved settings outlive the call.
C14_OneGuardPerHandle ==
    /\ Count("open") <= 1
    /\ Count("acquire") <= Count("open")
    /\ Count("release") <= Count("acquire")
    /\ guard.alive <=> Count("acquire") - Count("release") = 1
    /\ restores = Count("release")
    /\ pc \in {"idle", "done"} => ~guard.alive

\* a second call holds its guard, on the handle it opened itself, after
\* the first call has returned a line
C14_Witness ==
    /\ guard.alive
    /\ pc = "read"
    /\ Len(results) = 1
    /\ Count("open") = 1
    /\ Count("acquire") = 1
    /\ Count("release") = 0

(***************************************************************************)
(* Release and normalization (checked under Spec).                         *)
(***************************************************************************)
\* step e occurs in the log before position i
Before(e, i) == \E j \in 1..(i - 1) : log[j] = e

\* C16 as stated: the guard is released after the read and before the
\* normalization, which never runs under a live guard.
C16_AsStated ==
    /\ \A i \in 1..Len(log) : log[i] = "release" => Before("read", i)
    /\ \A i \in 1..Len(log) : log[i] = "fix" => Before("release", i)
    /\ pc = "fix" => ~guard.alive

\* C16, amended: the guard is released after the read and before the call
\* returns.  The readers of lib.rs release it before they normalize the
\* line; the readers of unix.rs and windows.rs normalize the line inside
\* from_bufread, under the live guard and with echo still disabled, and
\* release the guard afterwards.
C16_ReleaseAfterRead ==
    /\ \A i \in 1..Len(log) : log[i] = "release" => Before("read", i)
    /\ \A i \in 1..Len(log) : log[i] = "fix" =>
        /\ Before("read", i)
        /\ Before("release", i) <=> IsInline(variant)
    /\ pc = "fix" =>
        /\ guard.alive <=> ~IsInline(variant)
        /\ guard.alive => ~EchoEnabled(variant, term)
    /\ (Returned /\ GuardWasAcquired) => Count("release") = 1

\* the reader of unix.rs is about to normalize the line under its guard, on
\* a terminal that echoed before the call
C16_Witness ==
    /\ pc = "fix"
    /\ variant = "unix"
    /\ guard.alive
    /\ EchoEnabled(variant, pre)
    /\ ~EchoEnabled(variant, term)
    /\ password # <<>>

(***************************************************************************)
(* What the Unix guard changes (checked under Spec).                       *)
(***************************************************************************)
\* C17: on Unix, while the guard is alive, the terminal differs from its
\* settings of before the acquisition in two bits of c_lflag at most: ECHO
\* is clear and ECHONL is set; every other bit of c_lflag and every other
\* field is as it was.
C17_OnlyTwoBits ==
    (IsUnix(variant) /\ guard.alive) =>
        /\ ~HasBit(term.c_lflag, ECHO)
        /\ HasBit(term.c_lflag, ECHONL)
        /\ \A b \in OtherLflagBits : HasBit(term.c_lflag, b) <=> HasBit(guard.snap.c_lflag, b)
        /\ term.c_iflag = guard.snap.c_iflag
        /\ DOMAIN term = DOMAIN guard.snap
        /\ guard.snap = pre

\* a guard is alive on a canonical terminal with input translation that
\* echoed characters and no newlines before
C17_Witness ==
    /\ IsUnix(variant)
    /\ guard.alive
    /\ pc = "read"
    /\ HasBit(pre.c_lflag, ECHO)
    /\ ~HasBit(pre.c_lflag, ECHONL)
    /\ \A b \in OtherLflagBits : HasBit(pre.c_lflag, b)
    /\ pre.c_iflag # 0
    /\ term # pre

(***************************************************************************)
(* Two calls that overlap on one terminal.  Each caller has opened a       *)
(* handle of its own on the terminal; only the guards touch the settings   *)
(* both handles share.                                                     *)
(***************************************************************************)
Acted(c) == \E i \in 1..Len(order) : order[i][2] = c

\* HiddenInput::new of caller c
OverlapAcquire(c) ==
    /\ ~Acted(c)
    /\ \/ /\ guards' = [guards EXCEPT ![c] = HiddenInput(variant, term)]
          /\ term' = HiddenSettings(variant, term)
          /\ order' = Append(order, <<"acquire", c>>)
       \/ \* a call of HiddenInput::new fails: no guard, nothing changed
          /\ guards' = guards
          /\ term' = term
          /\ order' = Append(order, <<"acquire_failed", c>>)
    /\ UNCHANGED <<variant, src, pos, pc, entry, handle, guard, password, ret, pre, pos0,
                   expected, restores, restoreFailed, everRestoreFailed, term0, log,
                   residue, results, ioFailed, fails>>

\* Drop for HiddenInput of caller c
OverlapRelease(c) ==
    /\ guards[c].alive
    /\ \/ /\ term' = guards[c].snap
          /\ order' = Append(order, <<"release", c>>)
       \/ /\ term' = term
          /\ order' = Append(order, <<"release_failed", c>>)
    /\ guards' = [guards EXCEPT ![c].alive = FALSE]
    /\ UNCHANGED <<variant, src, pos, pc, entry, handle, guard, password, ret, pre, pos0,
                   expected, restores, restoreFailed, everRestoreFailed, term0, log,
                   residue, results, ioFailed, fails>>

InitOverlap == InitWith({<<>>}, Variants, TermiosValues)

NextOverlap ==
    \/ \E c \in Callers : OverlapAcquire(c)
    \/ \E c \in Callers : OverlapRelease(c)

SpecOverlap == InitOverlap /\ [][NextOverlap]_vars

NextAll ==
    \/ Next
    \/ from_bufread

SpecAll == Init /\ [][NextAll]_vars

IsSuffix(t, l) == Len(t) <= Len(l) /\ SubSeq(l, Len(l) - Len(t) + 1, Len(l)) = t

====
